---- MODULE Spec2Model ----
(***************************************************************************)
(* The quota tracker of the Dream Maker backend (backend.js): the sqlite   *)
(* table attempts(userId, attempts, lastAttempt), the helpers canGenerate, *)
(* getStatus and updateAttemptsAndGetStatus, and the two routes            *)
(* GET /api/status and POST /api/generate that call them.                  *)
(*                                                                         *)
(* Every sqlite statement is asynchronous: it is queued by the caller,     *)
(* executed later by the database, and its callback runs later still.  A   *)
(* request is therefore a sequence of steps, and the steps of concurrent   *)
(* requests interleave.  Date.now() is read where the code reads it.       *)
(***************************************************************************)
EXTENDS Integers, FiniteSets, Sequences, TLC

\* ---- Config (backend.js) ----
MAX_ATTEMPTS == 20
COOLDOWN_PERIOD == 24 * 60 * 60 * 1000

\* ---- Bounds of the model ----
\* The clock takes the values 0, 1, COOLDOWN_PERIOD, COOLDOWN_PERIOD + 1,
\* 2 * COOLDOWN_PERIOD, ... up to the instant of this index: two instants are
\* 0 ms, 1 ms, one ms less than a cooldown, a cooldown or more apart.
MaxInstant == 3
\* Requests in flight at the same time.
MaxSlots == 2
\* Requests sent in one run of the concurrent specification.
MaxRequests == 3
\* Direct calls of updateAttemptsAndGetStatus stop at MAX_ATTEMPTS + MaxOver.
MaxOver == 1
\* Recorded attempts the observer of the history may let pass.
MaxSkip == 20

Instant(i) == (i \div 2) * COOLDOWN_PERIOD + (i % 2)

Times == {Instant(i) : i \in 0..MaxInstant}
Slots == 1..MaxSlots
Users == {"alice", "bob"}

\* ---- The table: one row per userId (PRIMARY KEY), or none ----
NoRow == [exists |-> FALSE, attempts |-> 0, lastAttempt |-> 0]

Row(a, l) == [exists |-> TRUE, attempts |-> a, lastAttempt |-> l]

\* ---- Pure parts of the helpers ----
Max(a, b) == IF a >= b THEN a ELSE b

\* (mutant) a row exactly COOLDOWN_PERIOD old is not yet stale
CanGenerateStaleStrict(row, n) == n - row.lastAttempt > COOLDOWN_PERIOD

\* canGenerate: elapsed >= COOLDOWN_PERIOD, now read in the callback of db.get
CanGenerateStale(row, n) == n - row.lastAttempt >= COOLDOWN_PERIOD

\* (mutant) the limit compared with <= : one attempt too many is allowed
UnderLimitInclusive(row) == row.attempts <= MAX_ATTEMPTS

\* canGenerate: (row.attempts || 0) < MAX_ATTEMPTS
UnderLimit(row) == row.attempts < MAX_ATTEMPTS

\* (mutant) getStatus keeps a row exactly COOLDOWN_PERIOD old inside its window
GetStatusStaleStrict(row, n) == n - row.lastAttempt > COOLDOWN_PERIOD

\* getStatus: elapsed >= COOLDOWN_PERIOD, now read when getStatus is called
GetStatusStale(row, n) == n - row.lastAttempt >= COOLDOWN_PERIOD

NoStatus == [attemptsUsed |-> 0, remainingAttempts |-> 0, msUntilReset |-> 0, resetAt |-> 0]

\* (mutant) a user without attempts is shown a whole cooldown to wait
ZeroStatusFullCooldown(n) ==
  [attemptsUsed |-> 0, remainingAttempts |-> MAX_ATTEMPTS,
   msUntilReset |-> COOLDOWN_PERIOD, resetAt |-> n + COOLDOWN_PERIOD]

\* getStatus: the status of a user with no row, and of a row that was reset
ZeroStatus(n) ==
  [attemptsUsed |-> 0, remainingAttempts |-> MAX_ATTEMPTS, msUntilReset |-> 0, resetAt |-> n]

\* (mutant) resetAt adds what is left of the cooldown to lastAttempt, not to now
WindowStatusResetFromStamp(row, n) ==
  [attemptsUsed |-> row.attempts,
   remainingAttempts |-> Max(0, MAX_ATTEMPTS - row.attempts),
   msUntilReset |-> COOLDOWN_PERIOD - (n - row.lastAttempt),
   resetAt |-> row.lastAttempt + (COOLDOWN_PERIOD - (n - row.lastAttempt))]

\* (mutant) msUntilReset is the whole cooldown, not what is left of it
WindowStatusFullPeriod(row, n) ==
  [attemptsUsed |-> row.attempts,
   remainingAttempts |-> Max(0, MAX_ATTEMPTS - row.attempts),
   msUntilReset |-> COOLDOWN_PERIOD,
   resetAt |-> n + COOLDOWN_PERIOD]

\* (mutant) resetAt counts the cooldown from now, not from lastAttempt
WindowStatusResetFromNow(row, n) ==
  [attemptsUsed |-> row.attempts,
   remainingAttempts |-> Max(0, MAX_ATTEMPTS - row.attempts),
   msUntilReset |-> COOLDOWN_PERIOD - (n - row.lastAttempt),
   resetAt |-> n + COOLDOWN_PERIOD]

\* getStatus: the status of a row inside its window
WindowStatus(row, n) ==
  LET elapsed == n - row.lastAttempt
      msUntilReset == COOLDOWN_PERIOD - elapsed
  IN [attemptsUsed |-> row.attempts,
      remainingAttempts |-> Max(0, MAX_ATTEMPTS - row.attempts),
      msUntilReset |-> msUntilReset,
      resetAt |-> n + msUntilReset]

\* canGenerate as a function of the row db.get returned and the now it read
CanGenerateOf(row, n) ==
  IF ~row.exists THEN TRUE
  ELSE IF CanGenerateStale(row, n) THEN TRUE
  ELSE UnderLimit(row)

\* getStatus as a function of the row db.get returned and the now it read
GetStatusOf(row, n) ==
  IF ~row.exists THEN ZeroStatus(n)
  ELSE IF GetStatusStale(row, n) THEN ZeroStatus(n)
  ELSE WindowStatus(row, n)

\* (mutant) INSERT OR IGNORE: a conflict leaves the row as it is
UpsertRowIgnoreConflict(old, t) ==
  IF old.exists THEN old ELSE Row(1, t)

\* (mutant) INSERT OR REPLACE: a conflict replaces the row by a new one
UpsertRowReplace(old, t) == Row(1, t)

\* (mutant) the upsert restarts a stale row at 1
UpsertRowLazyReset(old, t) ==
  IF old.exists /\ t - old.lastAttempt < COOLDOWN_PERIOD
  THEN Row(old.attempts + 1, t)
  ELSE Row(1, t)

\* INSERT ... VALUES (?, 1, ?) ON CONFLICT(userId) DO UPDATE SET
\* attempts = attempts + 1, lastAttempt = ?   applied to the stored row
UpsertRow(old, t) ==
  IF old.exists THEN Row(old.attempts + 1, t) ELSE Row(1, t)

\* UPDATE attempts SET attempts = 0 WHERE userId = ?   applied to the stored row
ResetRow(old) ==
  IF old.exists THEN Row(0, old.lastAttempt) ELSE old

VARIABLES
  now,     \* Date.now()
  db,      \* the table attempts: userId -> row
  keySet,  \* whether RUNWARE_KEY is configured
  req,     \* the requests in flight, one per slot
  left,    \* requests the clients still send (concurrent specification)
  g        \* history of each user's row (not program state), see NoHistory

vars == <<now, db, keySet, req, left, g>>

\* A slot: which entry point runs in it, where it stands, and its locals.
\*   row  the row the last db.get returned
\*   t    the last Date.now() the request read (now / currentTime)
\*   st   the status getStatus resolved with
\*   err  the step whose statement (or upstream call) raised the error that
\*        rejected the request, "none" without one
\*   rw   what the upstream call returned
Idle ==
  [kind |-> "none", user |-> "", pc |-> "idle", after |-> "none",
   row |-> NoRow, t |-> 0, allowed |-> FALSE,
   out |-> "none", hasSt |-> FALSE, st |-> NoStatus, image |-> FALSE,
   raced |-> FALSE, before |-> NoRow, err |-> "none", rw |-> "none"]

Set(s, r) == req' = [req EXCEPT ![s] = r]

\* ---- History variables ----
\*   skip, count,   an observer lets `skip` recorded attempts pass and counts
\*   lo, hi         every later one; lo and hi are the earliest and the latest
\*                  lastAttempt written by the attempts counted
\*   k0, k          the attempts stored after the last write that was not an
\*                  upsert (or at the start), and the upserts executed since
\*   zeroed         a reset was the last write to the row
\*   streak         upserts executed for a user who started without a row, each
\*                  less than COOLDOWN_PERIOD after the one before; -1 otherwise
\*   ra             the resetAt of the last response sent to the user that
\*                  carried a status, 0 before the first; -1 when the
\*                  responses are not observed
NoHistory(row, skip) ==
  [skip |-> skip, count |-> 0, lo |-> 0, hi |-> 0, k0 |-> row.attempts, k |-> 0,
   zeroed |-> FALSE, streak |-> IF row.exists THEN -1 ELSE 0, ra |-> -1]

\* a response leaves: its resetAt is the last one sent to the user
SentHistory(h, r) ==
  IF r.hasSt /\ h.ra # -1 THEN [h EXCEPT !.ra = r.st.resetAt] ELSE h

Min(a, b) == IF a <= b THEN a ELSE b

Observed(h, t) ==
  IF h.skip > 0
  THEN [h EXCEPT !.skip = h.skip - 1]
  ELSE IF h.count = 0
  THEN [h EXCEPT !.count = 1, !.lo = t, !.hi = t]
  ELSE [h EXCEPT !.count = Min(h.count + 1, MAX_ATTEMPTS + 1),
                 !.lo = Min(h.lo, t), !.hi = IF t >= h.hi THEN t ELSE h.hi]

UpsertHistory(h, old, t) ==
  [Observed(h, t) EXCEPT
     !.k = h.k + 1,
     !.zeroed = FALSE,
     !.streak = IF h.streak = -1 THEN -1
                ELSE IF ~old.exists THEN 1
                ELSE IF t - old.lastAttempt < COOLDOWN_PERIOD THEN h.streak + 1
                ELSE -1]

ResetHistory(h, old) ==
  IF old.exists THEN [h EXCEPT !.k0 = 0, !.k = 0, !.zeroed = TRUE] ELSE h

\* a call of updateAttemptsAndGetStatus that rejects after its upsert
BrokenHistory(h, r) ==
  IF r.after = "inc" THEN [h EXCEPT !.streak = -1] ELSE h

\* (mutant) the failed statement is left queued and runs again
RejectedRetry(r) == [r EXCEPT !.err = r.pc]

\* A rejected promise: the routes catch it and answer 500 without status;
\* a helper called directly rejects to its caller.
Rejected(r) ==
  [r EXCEPT !.pc = "done", !.hasSt = FALSE, !.st = NoStatus, !.err = r.pc,
            !.out = IF r.kind \in {"generate", "status"} THEN "500" ELSE "rejected"]

\* getStatus(userId) is called: it reads Date.now() and queues its db.get.
CallGetStatus(r, after) ==
  [r EXCEPT !.pc = "gsGet", !.t = now, !.after = after]

\* (mutant) the route records the attempt whatever canGenerate resolved with
AfterCanGenerateUnchecked(r, allowed, n) ==
  IF r.kind = "generate"
  THEN [r EXCEPT !.allowed = TRUE, !.pc = "upsert", !.t = n, !.after = "inc"]
  ELSE [r EXCEPT !.allowed = allowed, !.pc = "done", !.out = "resolved"]

\* canGenerate resolved with `allowed`: what its caller does next, in the same
\* turn of the event loop.  The route reads Date.now() again, n, as currentTime
\* of updateAttemptsAndGetStatus or as now of getStatus.
AfterCanGenerate(r, allowed, n) ==
  IF r.kind = "generate"
  THEN IF allowed
       THEN [r EXCEPT !.allowed = TRUE, !.pc = "upsert", !.t = n, !.after = "inc"]
       ELSE [CallGetStatus([r EXCEPT !.allowed = FALSE], "deny") EXCEPT !.t = n]
  ELSE [r EXCEPT !.allowed = allowed, !.pc = "done", !.out = "resolved"]

\* getStatus resolved with `st`: what its caller does next.
AfterGetStatus(r, st) ==
  IF r.kind = "generate"
  THEN IF r.after = "deny"
       THEN [r EXCEPT !.pc = "done", !.out = "403", !.hasSt = TRUE, !.st = st]
       ELSE [r EXCEPT !.pc = "fetch", !.hasSt = TRUE, !.st = st]
  ELSE [r EXCEPT !.pc = "done", !.hasSt = TRUE, !.st = st,
                 !.out = IF r.kind = "status" THEN "200" ELSE "resolved"]

\* A response is sent in the turn of the event loop that produced it: nothing
\* else runs while a slot holds one.
Ready == \A s \in Slots : req[s].pc # "done"

\* A new request takes the first slot that is free.
Free(s) ==
  /\ Ready
  /\ req[s].pc = "idle"
  /\ \A s2 \in Slots : s2 < s => req[s2].pc # "idle"

\* ---- Routes ----

\* POST /api/generate {prompt, userId}
PostGenerate(s, prompt, userId) ==
  /\ Free(s)
  /\ Set(s, IF prompt = "" \/ userId = ""
            THEN [Idle EXCEPT !.kind = "generate", !.pc = "done", !.out = "400"]
            ELSE IF ~keySet
            THEN [Idle EXCEPT !.kind = "generate", !.user = userId,
                              !.pc = "done", !.out = "500"]
            ELSE [Idle EXCEPT !.kind = "generate", !.user = userId, !.pc = "cgGet"])
  /\ UNCHANGED <<now, db, keySet, g>>

\* GET /api/status?userId=
GetApiStatus(s, userId) ==
  /\ Free(s)
  /\ Set(s, IF userId = ""
            THEN [Idle EXCEPT !.kind = "status", !.pc = "done", !.out = "400"]
            ELSE CallGetStatus([Idle EXCEPT !.kind = "status", !.user = userId], "none"))
  /\ UNCHANGED <<now, db, keySet, g>>

\* ---- The helpers called directly ----

CallCanGenerate(s, userId) ==
  /\ Free(s)
  /\ Set(s, [Idle EXCEPT !.kind = "canGenerate", !.user = userId, !.pc = "cgGet"])
  /\ UNCHANGED <<now, db, keySet, g>>

CallStatus(s, userId) ==
  /\ Free(s)
  /\ Set(s, CallGetStatus([Idle EXCEPT !.kind = "getStatus", !.user = userId], "none"))
  /\ UNCHANGED <<now, db, keySet, g>>

CallUpdateAttempts(s, userId) ==
  /\ Free(s)
  /\ db[userId].attempts < MAX_ATTEMPTS + MaxOver
  /\ Set(s, [Idle EXCEPT !.kind = "recordAttempt", !.user = userId,
                         !.pc = "upsert", !.t = now, !.after = "inc"])
  /\ UNCHANGED <<now, db, keySet, g>>

\* ---- canGenerate ----

\* db.get executes
CgGet(s) ==
  /\ req[s].pc = "cgGet"
  /\ Ready
  /\ \E ok \in BOOLEAN :
       Set(s, IF ok
              THEN [req[s] EXCEPT !.row = db[req[s].user], !.pc = "cgCb"]
              ELSE Rejected(req[s]))
  /\ UNCHANGED <<now, db, keySet, left, g>>

\* the callback of db.get reads Date.now(); when it resolves at once, the route
\* continues in the same turn and reads Date.now() a second time, which may
\* have advanced to n
CgCb(s) ==
  /\ req[s].pc = "cgCb"
  /\ Ready
  /\ \E n \in Times :
       LET r == [req[s] EXCEPT !.t = now]
           resolves == ~r.row.exists \/ ~CanGenerateStale(r.row, now)
       IN /\ n >= now
          /\ n # now => (resolves /\ r.kind = "generate")
          /\ now' = n
          /\ Set(s, IF ~r.row.exists
                    THEN AfterCanGenerate(r, TRUE, n)
                    ELSE IF CanGenerateStale(r.row, now)
                    THEN [r EXCEPT !.pc = "cgUpd"]
                    ELSE AfterCanGenerate(r, UnderLimit(r.row), n))
  /\ UNCHANGED <<db, keySet, left, g>>

\* (mutant) the UPDATE has no WHERE clause: it zeroes every user's row
CgUpdAllUsers(s) ==
  /\ req[s].pc = "cgUpd"
  /\ Ready
  /\ \E ok \in BOOLEAN :
       IF ok
       THEN /\ db' = [u \in Users |-> ResetRow(db[u])]
            /\ g' = [g EXCEPT ![req[s].user] = ResetHistory(@, db[req[s].user])]
            /\ Set(s, [req[s] EXCEPT !.pc = "cgUpdCb"])
       ELSE /\ db' = db
            /\ g' = g
            /\ Set(s, Rejected(req[s]))
  /\ UNCHANGED <<now, keySet, left>>

\* UPDATE attempts SET attempts = 0 executes
CgUpd(s) ==
  /\ req[s].pc = "cgUpd"
  /\ Ready
  /\ \E ok \in BOOLEAN :
       IF ok
       THEN /\ db' = [db EXCEPT ![req[s].user] = ResetRow(@)]
            /\ g' = [g EXCEPT ![req[s].user] = ResetHistory(@, db[req[s].user])]
            /\ Set(s, [req[s] EXCEPT !.pc = "cgUpdCb"])
       ELSE /\ db' = db
            /\ g' = g
            /\ Set(s, Rejected(req[s]))
  /\ UNCHANGED <<now, keySet, left>>

\* the callback of the UPDATE: resolve(true)
CgUpdCb(s) ==
  /\ req[s].pc = "cgUpdCb"
  /\ Ready
  /\ Set(s, AfterCanGenerate(req[s], TRUE, now))
  /\ UNCHANGED <<now, db, keySet, left, g>>

\* ---- updateAttemptsAndGetStatus ----

\* a request of `user` that has read the row for its check and not yet recorded
Checking(r, user) ==
  r.user = user /\ r.pc \in {"cgCb", "cgUpd", "cgUpdCb", "upsert"}

\* (mutant) a read-modify-write pair: the count written is one more than the
\* count the request read for its check, not one more than the stored count
UpsertReadModifyWrite(s) ==
  /\ req[s].pc = "upsert"
  /\ Ready
  /\ \E ok \in BOOLEAN :
       IF ok
       THEN /\ db' = [db EXCEPT ![req[s].user] = UpsertRow(req[s].row, req[s].t)]
            /\ g' = [g EXCEPT ![req[s].user] =
                                UpsertHistory(@, db[req[s].user], req[s].t)]
            /\ Set(s, [req[s] EXCEPT !.pc = "upsertCb", !.before = db[req[s].user]])
       ELSE /\ db' = db
            /\ g' = g
            /\ Set(s, Rejected(req[s]))
  /\ UNCHANGED <<now, keySet, left>>

\* the upsert executes, with the currentTime read when it was queued
Upsert(s) ==
  /\ req[s].pc = "upsert"
  /\ Ready
  /\ \E ok \in BOOLEAN :
       IF ok
       THEN /\ db' = [db EXCEPT ![req[s].user] = UpsertRow(@, req[s].t)]
            /\ g' = [g EXCEPT ![req[s].user] =
                                UpsertHistory(@, db[req[s].user], req[s].t)]
            /\ req' = [s2 \in Slots |->
                        IF s2 = s
                        THEN [req[s] EXCEPT !.pc = "upsertCb",
                                            !.before = db[req[s].user]]
                        ELSE IF Checking(req[s2], req[s].user)
                        THEN [req[s2] EXCEPT !.raced = TRUE]
                        ELSE req[s2]]
       ELSE /\ db' = db
            /\ g' = g
            /\ Set(s, Rejected(req[s]))
  /\ UNCHANGED <<now, keySet, left>>

\* the callback of the upsert: getStatus(userId)
UpsertCb(s) ==
  /\ req[s].pc = "upsertCb"
  /\ Ready
  /\ Set(s, CallGetStatus(req[s], req[s].after))
  /\ UNCHANGED <<now, db, keySet, left, g>>

\* ---- getStatus ----

\* db.get executes and its callback runs
GsGet(s) ==
  /\ req[s].pc = "gsGet"
  /\ Ready
  /\ \E ok \in BOOLEAN :
       LET r == [req[s] EXCEPT !.row = db[req[s].user]]
       IN /\ Set(s, IF ~ok
                    THEN Rejected(req[s])
                    ELSE IF ~r.row.exists
                    THEN AfterGetStatus(r, ZeroStatus(r.t))
                    ELSE IF GetStatusStale(r.row, r.t)
                    THEN [r EXCEPT !.pc = "gsUpd"]
                    ELSE AfterGetStatus(r, WindowStatus(r.row, r.t)))
          /\ g' = IF ok THEN g
                  ELSE [g EXCEPT ![r.user] = BrokenHistory(@, r)]
  /\ UNCHANGED <<now, db, keySet, left>>

\* UPDATE attempts SET attempts = 0 executes and its callback runs
GsUpd(s) ==
  /\ req[s].pc = "gsUpd"
  /\ Ready
  /\ \E ok \in BOOLEAN :
       IF ok
       THEN /\ db' = [db EXCEPT ![req[s].user] = ResetRow(@)]
            /\ g' = [g EXCEPT ![req[s].user] = ResetHistory(@, db[req[s].user])]
            /\ Set(s, AfterGetStatus(req[s], ZeroStatus(req[s].t)))
       ELSE /\ db' = db
            /\ g' = [g EXCEPT ![req[s].user] = BrokenHistory(@, req[s])]
            /\ Set(s, Rejected(req[s]))
  /\ UNCHANGED <<now, keySet, left>>

\* ---- The upstream call of POST /api/generate ----
FetchOutcomes == {"ok", "notOk", "noImageURL", "throws"}

\* (mutant) the route asks getStatus again once the upstream call has returned
FetchThenStatus(s) ==
  /\ req[s].pc = "fetch"
  /\ Ready
  /\ \E o \in FetchOutcomes :
       LET r == [req[s] EXCEPT !.rw = o]
       IN Set(s, IF o = "throws" THEN Rejected(r) ELSE CallGetStatus(r, "inc"))
  /\ UNCHANGED <<now, db, keySet, left, g>>

\* (mutant) a failed upstream call gives the attempt back
FetchRollback(s) ==
  /\ req[s].pc = "fetch"
  /\ Ready
  /\ \E o \in FetchOutcomes :
       LET r == [req[s] EXCEPT !.rw = o]
       IN /\ Set(s, IF o = "ok"
                    THEN [r EXCEPT !.pc = "done", !.out = "200", !.image = TRUE]
                    ELSE IF o = "throws"
                    THEN Rejected(r)
                    ELSE [r EXCEPT !.pc = "done", !.out = "500"])
          /\ db' = IF o = "ok" THEN db
                   ELSE [db EXCEPT ![r.user].attempts = Max(0, @ - 1)]
  /\ UNCHANGED <<now, keySet, left, g>>

Fetch(s) ==
  /\ req[s].pc = "fetch"
  /\ Ready
  /\ \E o \in FetchOutcomes :
       LET r == [req[s] EXCEPT !.rw = o]
       IN Set(s, IF o = "ok"
                 THEN [r EXCEPT !.pc = "done", !.out = "200", !.image = TRUE]
                 ELSE IF o = "throws"
                 THEN Rejected(r)
                 ELSE [r EXCEPT !.pc = "done", !.out = "500"])
  /\ UNCHANGED <<now, db, keySet, left, g>>

\* the response is sent, or the promise is consumed
Finish(s) ==
  /\ req[s].pc = "done"
  /\ Set(s, Idle)
  /\ g' = IF req[s].user \in Users
          THEN [g EXCEPT ![req[s].user] = SentHistory(@, req[s])]
          ELSE g
  /\ UNCHANGED <<now, db, keySet, left>>

\* Date.now() advances
Tick ==
  /\ Ready
  /\ \E n \in Times : n > now /\ now' = n
  /\ UNCHANGED <<db, keySet, req, left, g>>

\* ---- Specifications ----
InitAttempts == {1, MAX_ATTEMPTS - 1, MAX_ATTEMPTS}

\* The table is durable: a start finds no row or a row an earlier run left.
InitDb ==
  {d \in [Users -> {NoRow} \cup {Row(a, 0) : a \in InitAttempts}] : d["bob"] = NoRow}

InitCommon ==
  /\ now = 0
  /\ db \in InitDb
  /\ keySet \in BOOLEAN
  /\ req = [s \in Slots |-> Idle]
  /\ \E k \in 0..MaxSkip : g = [u \in Users |-> NoHistory(db[u], k)]

AllIdle == \A s \in Slots : req[s].pc = "idle"

Send == left > 0 /\ left' = left - 1

Ids == {"alice", ""}

\* Concurrent requests of the routes, of one user.
Init == InitCommon /\ left = MaxRequests /\ g["alice"].skip = 0

Next ==
  \/ Tick
  \/ \E s \in Slots :
       \/ Send /\ \E p \in {"", "dream"}, u \in Ids : PostGenerate(s, p, u)
       \/ Send /\ \E u \in Ids : GetApiStatus(s, u)
       \/ CgGet(s) \/ CgCb(s) \/ CgUpd(s) \/ CgUpdCb(s)
       \/ Upsert(s) \/ UpsertCb(s) \/ GsGet(s) \/ GsUpd(s)
       \/ Fetch(s)
       \/ Finish(s)

Spec == Init /\ [][Next]_vars

\* The routes with the requests handled one at a time, any number of them.
Serve == AllIdle /\ UNCHANGED left

SeqInit == InitCommon /\ left = 0

SeqNext ==
  \/ Tick
  \/ \E s \in Slots :
       \/ Serve /\ \E p \in {"", "dream"}, u \in Ids : PostGenerate(s, p, u)
       \/ Serve /\ \E u \in Ids : GetApiStatus(s, u)
       \/ CgGet(s) \/ CgCb(s) \/ CgUpd(s) \/ CgUpdCb(s)
       \/ Upsert(s) \/ UpsertCb(s) \/ GsGet(s) \/ GsUpd(s)
       \/ Fetch(s)
       \/ Finish(s)

SeqSpec == SeqInit /\ [][SeqNext]_vars

\* The routes one request at a time, the responses of each user observed.
SentInit ==
  /\ now = 0
  /\ db \in InitDb
  /\ keySet \in BOOLEAN
  /\ req = [s \in Slots |-> Idle]
  /\ left = 0
  /\ g = [u \in Users |-> [NoHistory(db[u], 0) EXCEPT !.ra = 0]]

SentSpec == SentInit /\ [][SeqNext]_vars

\* the same start, the observer counting from the first recorded attempt
OneInit == SeqInit /\ g["alice"].skip = 0

\* The generate requests handled one at a time, status requests at any time.
NoGenerate == \A s \in Slots : req[s].kind # "generate"

GenSeqNext ==
  \/ Tick
  \/ \E s \in Slots :
       \/ NoGenerate /\ UNCHANGED left
            /\ \E p \in {"", "dream"}, u \in Ids : PostGenerate(s, p, u)
       \/ UNCHANGED left /\ \E u \in Ids : GetApiStatus(s, u)
       \/ CgGet(s) \/ CgCb(s) \/ CgUpd(s) \/ CgUpdCb(s)
       \/ Upsert(s) \/ UpsertCb(s) \/ GsGet(s) \/ GsUpd(s)
       \/ Fetch(s)
       \/ Finish(s)

GenSeqSpec == OneInit /\ [][GenSeqNext]_vars

\* The three helpers called directly, one call at a time, in any order.
OpNext ==
  \/ Tick
  \/ \E s \in Slots :
       \/ Serve /\ CallCanGenerate(s, "alice")
       \/ Serve /\ CallStatus(s, "alice")
       \/ Serve /\ CallUpdateAttempts(s, "alice")
       \/ CgGet(s) \/ CgCb(s) \/ CgUpd(s) \/ CgUpdCb(s)
       \/ Upsert(s) \/ UpsertCb(s) \/ GsGet(s) \/ GsUpd(s)
       \/ Finish(s)

OpSpec == OneInit /\ [][OpNext]_vars

\* The three helpers called directly for two users, the calls overlapping.
UsersNext ==
  \/ Tick
  \/ \E s \in Slots :
       \/ Send /\ \E u \in Users : CallCanGenerate(s, u)
       \/ Send /\ \E u \in Users : CallStatus(s, u)
       \/ Send /\ \E u \in Users : CallUpdateAttempts(s, u)
       \/ CgGet(s) \/ CgCb(s) \/ CgUpd(s) \/ CgUpdCb(s)
       \/ Upsert(s) \/ UpsertCb(s) \/ GsGet(s) \/ GsUpd(s)
       \/ Finish(s)

UsersSpec == Init /\ [][UsersNext]_vars

\* ---- Claims ----

(* C1: with the generate requests of a user handled one at a time, every
   interval shorter than COOLDOWN_PERIOD holds at most MAX_ATTEMPTS recorded
   attempts of that user: once the observer has counted more than MAX_ATTEMPTS
   attempts, the first and the last of them lie at least COOLDOWN_PERIOD apart. *)
C1_QuotaPerWindow ==
  \A u \in Users :
    g[u].count > MAX_ATTEMPTS => g[u].hi - g[u].lo >= COOLDOWN_PERIOD

\* a helper called directly has resolved in slot s
Resolved(s, kind) ==
  req[s].kind = kind /\ req[s].pc = "done" /\ req[s].out = "resolved"

\* the row the last db.get of slot s returned was stale at the time the slot read
StaleRead(s) ==
  req[s].row.exists /\ req[s].t - req[s].row.lastAttempt >= COOLDOWN_PERIOD

InWindowRead(s) ==
  req[s].row.exists /\ req[s].t - req[s].row.lastAttempt < COOLDOWN_PERIOD

(* C2: canGenerate resolves false exactly when db.get returned a row with
   attempts >= MAX_ATTEMPTS and now - lastAttempt < COOLDOWN_PERIOD, and true
   in every other case (no row, stale row, attempts < MAX_ATTEMPTS). *)
C2_CanGenerateFalseExactly ==
  \A s \in Slots :
    Resolved(s, "canGenerate") =>
      (req[s].allowed = FALSE <=>
         (InWindowRead(s) /\ req[s].row.attempts >= MAX_ATTEMPTS))

C2_Witness ==
  \E s \in Slots :
    /\ Resolved(s, "canGenerate")
    /\ req[s].allowed = FALSE
    /\ req[s].row.attempts = MAX_ATTEMPTS
    /\ req[s].t - req[s].row.lastAttempt = COOLDOWN_PERIOD - 1

(* C3: the stored attempts pass MAX_ATTEMPTS only through the race of check and
   record: a generate request whose upsert found attempts >= MAX_ATTEMPTS stored
   had read the row for its check before another request of the same user
   recorded its attempt. *)
C3_OverLimitOnlyByRace ==
  \A s \in Slots :
    (req[s].kind = "generate" /\ req[s].before.attempts >= MAX_ATTEMPTS)
      => req[s].raced

\* Both requests read attempts = MAX_ATTEMPTS - 1 inside the window, both were
\* allowed and both are recorded: MAX_ATTEMPTS + 1 attempts are stored.
C3_Witness ==
  \E s1, s2 \in Slots :
    /\ s1 # s2
    /\ req[s1].kind = "generate" /\ req[s2].kind = "generate"
    /\ req[s1].user = req[s2].user
    /\ req[s1].pc = "upsertCb" /\ req[s2].pc = "upsertCb"
    /\ req[s1].allowed /\ req[s2].allowed
    /\ req[s1].row = req[s2].row
    /\ req[s1].row.attempts = MAX_ATTEMPTS - 1
    /\ InWindowRead(s1) /\ InWindowRead(s2)
    /\ req[s1].before.attempts = MAX_ATTEMPTS - 1
    /\ req[s2].before.attempts = MAX_ATTEMPTS
    /\ db[req[s1].user].attempts = MAX_ATTEMPTS + 1

(* C4: no upsert is lost: the stored attempts are the attempts stored after
   the last reset (or at the start, 0 without a row) plus the number of upserts
   executed since, in every interleaving of the requests. *)
C4_NoLostIncrement ==
  \A u \in Users :
    IF db[u].exists THEN db[u].attempts = g[u].k0 + g[u].k ELSE g[u].k = 0

\* Two upserts of one user executed before the callback of either ran.
C4_Witness ==
  \E s1, s2 \in Slots :
    /\ s1 # s2
    /\ req[s1].user = req[s2].user
    /\ req[s1].pc = "upsertCb" /\ req[s2].pc = "upsertCb"
    /\ g[req[s1].user].k >= 2
    /\ db[req[s1].user].attempts = g[req[s1].user].k0 + g[req[s1].user].k

(* C5: a write that zeroes attempts finds the row stale: whenever the stored
   attempts of a user decrease, now - lastAttempt >= COOLDOWN_PERIOD holds for
   the stored row at that moment. *)
C5_ResetOnlyWhenStale ==
  [][\A u \in Users :
       db'[u].attempts < db[u].attempts
         => now - db[u].lastAttempt >= COOLDOWN_PERIOD]_vars

(* C6: for a user who started without a row, after N upserts in a row
   (1 <= N <= MAX_ATTEMPTS), each less than COOLDOWN_PERIOD after the one
   before, the status updateAttemptsAndGetStatus resolves with and the status
   of a following getStatus, read inside the window, have attemptsUsed = N and
   remainingAttempts = MAX_ATTEMPTS - N. *)
C6_StatusCountsAttempts ==
  \A s \in Slots :
    LET n == g[req[s].user].streak
    IN ((Resolved(s, "recordAttempt") \/ Resolved(s, "getStatus"))
          /\ n \in 1..MAX_ATTEMPTS /\ InWindowRead(s))
         => /\ req[s].hasSt
            /\ req[s].st.attemptsUsed = n
            /\ req[s].st.remainingAttempts = MAX_ATTEMPTS - n

C6_Witness ==
  \E s \in Slots :
    /\ Resolved(s, "recordAttempt")
    /\ g[req[s].user].streak = MAX_ATTEMPTS - 1
    /\ InWindowRead(s)
    /\ req[s].st.attemptsUsed = MAX_ATTEMPTS - 1
    /\ req[s].st.remainingAttempts = 1

(* C7: for a row with now - lastAttempt >= COOLDOWN_PERIOD (exactly equal
   included), whatever its attempts, canGenerate resolves true and getStatus
   resolves with attemptsUsed = 0, remainingAttempts = MAX_ATTEMPTS,
   msUntilReset = 0 and resetAt = now; each leaves attempts = 0 stored, and
   until the next upsert the stored attempts stay 0 and every read returns 0. *)
C7_StaleRowIsZeroed ==
  /\ \A s \in Slots :
       /\ (Resolved(s, "canGenerate") /\ StaleRead(s))
            => (req[s].allowed /\ db[req[s].user].attempts = 0)
       /\ (Resolved(s, "getStatus") /\ StaleRead(s))
            => (/\ req[s].hasSt
                /\ req[s].st = [attemptsUsed |-> 0,
                                 remainingAttempts |-> MAX_ATTEMPTS,
                                 msUntilReset |-> 0,
                                 resetAt |-> req[s].t]
                /\ db[req[s].user].attempts = 0)
       /\ (req[s].pc \in {"cgCb", "cgUpd", "gsUpd"} /\ g[req[s].user].zeroed)
            => req[s].row.attempts = 0
       /\ (Resolved(s, "getStatus") /\ g[req[s].user].zeroed)
            => req[s].st.attemptsUsed = 0
  /\ \A u \in Users : g[u].zeroed => db[u].attempts = 0

\* canGenerate on a full row exactly COOLDOWN_PERIOD old
C7_Witness ==
  \E s \in Slots :
    /\ Resolved(s, "canGenerate")
    /\ req[s].row.attempts = MAX_ATTEMPTS
    /\ req[s].t - req[s].row.lastAttempt = COOLDOWN_PERIOD
    /\ req[s].allowed
    /\ db[req[s].user] = Row(0, req[s].row.lastAttempt)

(* C8: once a user who started without a row has recorded MAX_ATTEMPTS attempts
   in one window, and until the next upsert, canGenerate resolves false on
   every call made less than COOLDOWN_PERIOD after the last recorded attempt
   and true on every call at or after it; getStatus inside the window shows
   remainingAttempts = 0 and msUntilReset = COOLDOWN_PERIOD minus the time
   since the last recorded attempt. *)
C8_FullUntilCooldown ==
  \A s \in Slots :
    LET u == req[s].user
        since == req[s].t - db[u].lastAttempt
    IN (req[s].pc = "done" /\ req[s].out = "resolved"
          /\ g[u].streak = MAX_ATTEMPTS)
         => /\ req[s].kind = "canGenerate"
                 => (req[s].allowed <=> since >= COOLDOWN_PERIOD)
            /\ (req[s].kind # "canGenerate" /\ since < COOLDOWN_PERIOD)
                 => /\ req[s].st.attemptsUsed = MAX_ATTEMPTS
                    /\ req[s].st.remainingAttempts = 0
                    /\ req[s].st.msUntilReset = COOLDOWN_PERIOD - since

\* the 21st check, one millisecond before the cooldown ends
C8_Witness ==
  \E s \in Slots :
    /\ Resolved(s, "canGenerate")
    /\ g[req[s].user].streak = MAX_ATTEMPTS
    /\ req[s].t - db[req[s].user].lastAttempt = COOLDOWN_PERIOD - 1
    /\ ~req[s].allowed

(* C9: the upsert of updateAttemptsAndGetStatus on an existing row adds exactly
   1 to attempts and sets lastAttempt to the currentTime of the call, also when
   the row is stale: no reset happens, and the status resolved with, read
   inside the new window, has attemptsUsed = the old attempts + 1. *)
C9_UpsertUnconditional ==
  \A s \in Slots :
    (req[s].kind = "recordAttempt" /\ req[s].before.exists)
      => /\ req[s].pc = "upsertCb"
              => db[req[s].user] = Row(req[s].before.attempts + 1, req[s].t)
         /\ (Resolved(s, "recordAttempt") /\ InWindowRead(s))
              => /\ req[s].row.attempts = req[s].before.attempts + 1
                 /\ req[s].st.attemptsUsed = req[s].before.attempts + 1

\* an upsert on a stale row with attempts > 0, not preceded by a reset
C9_Witness ==
  \E s \in Slots :
    /\ Resolved(s, "recordAttempt")
    /\ req[s].before.exists
    /\ req[s].before.attempts = MAX_ATTEMPTS - 1
    /\ req[s].row.lastAttempt - req[s].before.lastAttempt >= COOLDOWN_PERIOD
    /\ InWindowRead(s)
    /\ req[s].st.attemptsUsed = MAX_ATTEMPTS

(* C10: every status getStatus resolves with (no row, stale row, row inside
   the window) has resetAt = now + msUntilReset, now being the Date.now() that
   call of getStatus read. *)
C10_ResetAtIsNowPlusMs ==
  \A s \in Slots :
    req[s].hasSt => req[s].st.resetAt = req[s].t + req[s].st.msUntilReset

C10_Witness ==
  \E s \in Slots :
    /\ req[s].hasSt
    /\ InWindowRead(s)
    /\ req[s].st.msUntilReset = 1
    /\ req[s].st.resetAt = req[s].t + 1

(* C11: for a user without a row getStatus resolves with attemptsUsed = 0,
   remainingAttempts = MAX_ATTEMPTS, msUntilReset = 0 and resetAt = the now it
   read, canGenerate resolves true, and neither call inserts a row: the row is
   absent exactly until the first upsert executes. *)
C11_NoRowStatus ==
  /\ \A s \in Slots :
       /\ (Resolved(s, "getStatus") /\ ~req[s].row.exists)
            => /\ req[s].hasSt
               /\ req[s].st = [attemptsUsed |-> 0,
                                remainingAttempts |-> MAX_ATTEMPTS,
                                msUntilReset |-> 0,
                                resetAt |-> req[s].t]
               /\ ~db[req[s].user].exists
       /\ (Resolved(s, "canGenerate") /\ ~req[s].row.exists)
            => (req[s].allowed /\ ~db[req[s].user].exists)
  /\ \A u \in Users : ~db[u].exists <=> g[u].streak = 0

\* getStatus of a user without a row, called after the clock has advanced
C11_Witness ==
  \E s \in Slots :
    /\ Resolved(s, "getStatus")
    /\ ~req[s].row.exists
    /\ req[s].t = COOLDOWN_PERIOD + 1
    /\ req[s].st.resetAt = COOLDOWN_PERIOD + 1
    /\ req[s].st.remainingAttempts = MAX_ATTEMPTS
    /\ ~db[req[s].user].exists

(* C12: a status resolved from a row inside its window (now - lastAttempt <
   COOLDOWN_PERIOD, now being the Date.now() getStatus read) has attemptsUsed =
   attempts, remainingAttempts = max(0, MAX_ATTEMPTS - attempts) and
   msUntilReset = COOLDOWN_PERIOD - elapsed; every status resolved has
   remainingAttempts in 0..MAX_ATTEMPTS, and inside the window
   0 < msUntilReset <= COOLDOWN_PERIOD. *)
C12_WindowStatusInBounds ==
  \A s \in Slots :
    req[s].hasSt
      => /\ req[s].st.remainingAttempts \in 0..MAX_ATTEMPTS
         /\ InWindowRead(s)
              => /\ req[s].st.attemptsUsed = req[s].row.attempts
                 /\ req[s].st.remainingAttempts
                      = Max(0, MAX_ATTEMPTS - req[s].row.attempts)
                 /\ req[s].st.msUntilReset
                      = COOLDOWN_PERIOD - (req[s].t - req[s].row.lastAttempt)
                 /\ req[s].st.msUntilReset > 0
                 /\ req[s].st.msUntilReset <= COOLDOWN_PERIOD

(* C13: once canGenerate has resolved false for a generate request, no step of
   that request changes the table (attempts, lastAttempt and existence of every
   row stay as they are) or reaches the upstream call, and unless a statement
   fails the request is answered 403 with the status getStatus resolved with. *)
C13_RejectedLeavesRow ==
  [][\A s \in Slots :
       (req[s].kind = "generate" /\ req[s].after = "deny" /\ req'[s] # req[s])
         => /\ db' = db
            /\ req'[s].pc # "fetch"
            /\ ~req'[s].image
            /\ (req'[s].pc = "done" /\ req'[s].err = "none")
                 => (req'[s].out = "403" /\ req'[s].hasSt)]_vars

(* C19: every 403 response of POST /api/generate carries remainingAttempts = 0
   and msUntilReset > 0. *)
C19_DeniedStatusIsFull ==
  \A s \in Slots :
    (req[s].kind = "generate" /\ req[s].pc = "done" /\ req[s].out = "403")
      => /\ req[s].hasSt
         /\ req[s].st.remainingAttempts = 0
         /\ req[s].st.msUntilReset > 0

\* the statement of step `at` failed in slot s
Failed(s, at) == req[s].err \in at

StorageSteps == {"cgGet", "cgUpd", "upsert", "gsGet", "gsUpd"}

(* C14: when a statement of canGenerate, getStatus or updateAttemptsAndGetStatus
   fails, the call ends there: the statement is not run again, a helper called
   directly rejects and a route answers 500 without status; a generate request
   whose canGenerate failed has not called updateAttemptsAndGetStatus and has
   made no upstream call. *)
C14_StorageFailureIs500 ==
  \A s \in Slots :
    /\ Failed(s, StorageSteps)
         => /\ req[s].pc = "done"
            /\ ~req[s].hasSt
            /\ ~req[s].image
            /\ req[s].rw = "none"
            /\ req[s].out = IF req[s].kind \in {"generate", "status"}
                             THEN "500" ELSE "rejected"
    /\ (Failed(s, {"cgGet", "cgUpd"}) /\ req[s].kind = "generate")
         => (req[s].after = "none" /\ req[s].before = NoRow)

\* the UPDATE of canGenerate failed in a generate request: 500, nothing recorded
C14_Witness ==
  \E s \in Slots :
    /\ req[s].kind = "generate"
    /\ Failed(s, {"cgUpd"})
    /\ req[s].out = "500"
    /\ req[s].after = "none"
    /\ db[req[s].user].attempts = MAX_ATTEMPTS

\* the quota tracker is entered at these steps
TrackerSteps == {"cgGet", "upsert", "gsGet"}

(* C15 (as claimed): when the upstream call of a generate request has returned,
   the route calls the quota tracker again. *)
C15_TrackerAfterUpstream ==
  [][\A s \in Slots :
       (req[s].pc = "fetch" /\ req'[s].pc # "fetch" /\ req'[s].rw # "throws")
         => req'[s].pc \in TrackerSteps]_vars

(* C15 (amended): a generate request calls the quota tracker only before the
   upstream call: it reaches the call after canGenerate resolved true and
   updateAttemptsAndGetStatus resolved with a status, and once the call has
   returned the route answers without another call of the tracker, with the
   status it held before the call and the table untouched. *)
C15_TrackerOnlyBeforeUpstream ==
  [][\A s \in Slots :
       /\ req'[s].pc = "fetch"
            => /\ req'[s].kind = "generate"
               /\ req'[s].allowed
               /\ req'[s].after = "inc"
               /\ req'[s].hasSt
       /\ (req[s].pc = "fetch" /\ req'[s] # req[s])
            => /\ req'[s].pc = "done"
               /\ db' = db
               /\ req'[s].hasSt => req'[s].st = req[s].st]_vars

\* a generate request answered 200 with the image
C15_Witness ==
  \E s \in Slots :
    /\ req[s].kind = "generate"
    /\ req[s].pc = "done"
    /\ req[s].rw = "ok"
    /\ req[s].out = "200"
    /\ req[s].image
    /\ req[s].hasSt
    /\ req[s].after = "inc"

(* C17: a generate request reaches the upstream call only after its upsert has
   executed, and when the call returns a non-OK response or a body without
   imageURL the route answers 500 with the status updateAttemptsAndGetStatus
   resolved with, without an image and without writing to the table: the
   recorded attempt stays. *)
C17_AttemptKeptOnUpstreamFailure ==
  [][\A s \in Slots :
       /\ req'[s].pc = "fetch"
            => /\ req'[s].after = "inc"
               /\ req'[s].err = "none"
               /\ db'[req'[s].user].exists
       /\ (req[s].pc = "fetch" /\ req'[s].rw \in {"notOk", "noImageURL"})
            => /\ req'[s].pc = "done"
               /\ req'[s].out = "500"
               /\ ~req'[s].image
               /\ req'[s].hasSt
               /\ req'[s].st = req[s].st
               /\ db' = db]_vars

\* the 20th attempt stays recorded after the upstream call failed
C17_Witness ==
  \E s \in Slots :
    /\ req[s].kind = "generate"
    /\ req[s].pc = "done"
    /\ req[s].rw = "noImageURL"
    /\ req[s].out = "500"
    /\ req[s].hasSt
    /\ req[s].st.attemptsUsed = MAX_ATTEMPTS
    /\ db[req[s].user].attempts = MAX_ATTEMPTS

\* the upsert of the request in slot s has executed
Recorded(s) ==
  req[s].after = "inc" /\ req[s].pc # "upsert" /\ req[s].err # "upsert"

(* C16: a user has one row at most (userId is the key of the table): an upsert
   that finds no row of its user creates it with attempts = 1, an upsert that
   finds the row adds 1 to it, also when several first upserts of one user are
   queued together, and a row once created is never removed. *)
C16_OneRecordPerUser ==
  [][\A u \in Users :
       /\ db[u].exists => db'[u].exists
       /\ \A s \in Slots :
            (req[s].user = u /\ req[s].pc = "upsert" /\ req'[s].pc = "upsertCb")
              => /\ db'[u].exists
                 /\ db'[u].attempts = IF db[u].exists THEN db[u].attempts + 1 ELSE 1
                 /\ db'[u].lastAttempt = req[s].t]_vars

\* two requests of a new user both found no row when they checked; the upsert
\* of one created the row and the upsert of the other incremented it
C16_Witness ==
  \E s1, s2 \in Slots :
    /\ s1 # s2
    /\ req[s1].user = req[s2].user
    /\ Recorded(s1) /\ Recorded(s2)
    /\ req[s1].pc = "upsertCb" /\ req[s2].pc = "upsertCb"
    /\ ~req[s1].row.exists /\ ~req[s2].row.exists
    /\ ~req[s1].before.exists
    /\ req[s2].before = Row(1, req[s1].t)
    /\ db[req[s1].user] = Row(2, req[s2].t)

(* C18: canGenerate and getStatus agree on the same row and the same now:
   canGenerate resolves true exactly when getStatus computes
   remainingAttempts > 0 from the row and now canGenerate read, and getStatus
   resolves with remainingAttempts > 0 exactly when canGenerate computes true
   from the row and now getStatus read. *)
C18_CanGenerateAgreesWithStatus ==
  \A s \in Slots :
    /\ Resolved(s, "canGenerate")
         => (req[s].allowed
               <=> GetStatusOf(req[s].row, req[s].t).remainingAttempts > 0)
    /\ Resolved(s, "getStatus")
         => (req[s].st.remainingAttempts > 0
               <=> CanGenerateOf(req[s].row, req[s].t))

\* getStatus of a full row one millisecond before the cooldown ends
C18_Witness ==
  \E s \in Slots :
    /\ Resolved(s, "getStatus")
    /\ req[s].row.attempts = MAX_ATTEMPTS
    /\ req[s].t - req[s].row.lastAttempt = COOLDOWN_PERIOD - 1
    /\ req[s].st.remainingAttempts = 0
    /\ ~CanGenerateOf(req[s].row, req[s].t)

(* C20: a step of a call for one user leaves the row of every other user as it
   is (existence, attempts, lastAttempt), in every interleaving of calls for
   different users. *)
C20_OtherUsersUntouched ==
  [][\A s \in Slots :
       (req[s].user # "" /\ req'[s] # req[s])
         => \A v \in Users : v # req[s].user => db'[v] = db[v]]_vars

\* alice's stale row has just been zeroed while a call for bob is in flight
\* and bob's row holds a recorded attempt
C20_Witness ==
  \E s1, s2 \in Slots :
    /\ req[s1].user = "alice" /\ req[s1].pc = "cgUpdCb"
    /\ req[s2].user = "bob" /\ req[s2].pc = "upsertCb"
    /\ db["alice"].attempts = 0
    /\ db["bob"].attempts >= 1

(* C21: with the requests of a user handled one at a time, the resetAt of a
   response to that user is never below the resetAt of the response before it;
   a status computed inside the window has resetAt = lastAttempt +
   COOLDOWN_PERIOD, for a request that recorded an attempt the lastAttempt it
   wrote, which is not before the one it replaced; a status computed at or
   after the end of the window, or without a row, has resetAt = now. *)
C21_ResetAtNeverDecreases ==
  \A s \in Slots :
    LET u == req[s].user
    IN (req[s].pc = "done" /\ req[s].hasSt)
         => /\ req[s].st.resetAt >= g[u].ra
            /\ InWindowRead(s)
                 => /\ req[s].st.resetAt = req[s].row.lastAttempt + COOLDOWN_PERIOD
                    /\ req[s].row.lastAttempt = db[u].lastAttempt
            /\ ~InWindowRead(s) => req[s].st.resetAt = req[s].t
            /\ Recorded(s) => db[u].lastAttempt >= req[s].before.lastAttempt

\* a recorded attempt moved resetAt forward by one millisecond
C21_Witness ==
  \E s \in Slots :
    /\ req[s].pc = "done" /\ req[s].hasSt
    /\ Recorded(s)
    /\ InWindowRead(s)
    /\ g[req[s].user].ra = COOLDOWN_PERIOD
    /\ req[s].st.resetAt = COOLDOWN_PERIOD + 1

====
